---- MODULE Spec2Model ----
(***************************************************************************)
(* Content pipeline of the portfolio site: the frontmatter parser, the     *)
(* post normalizer and the post repository (blogPosts and its accessors).  *)
(*                                                                         *)
(* JavaScript strings are TLA+ strings; the string primitives below work   *)
(* on their characters (SubSeq on a string yields a string, \o joins).     *)
(* JavaScript values that the untyped parser can produce are tagged        *)
(* records [t |-> type, v |-> payload].                                    *)
(***************************************************************************)
EXTENDS Integers, Sequences, FiniteSets, TLC

(***************************************************************************)
(* String primitives: the methods of String.prototype the code uses        *)
(***************************************************************************)

\* s.charAt(i-1): the i-th character (1-based), "" outside the string
CharAt(s, i) == IF i >= 1 /\ i <= Len(s) THEN SubSeq(s, i, i) ELSE ""

\* The characters the regular-expression class \s and trim() treat as blank
IsSpace(c) == c \in {" ", "\t", "\n", "\r", "\f"}

IsDigit(c) == c \in {"0", "1", "2", "3", "4", "5", "6", "7", "8", "9"}

IsQuote(c) == c \in {"\"", "'"}

\* s.substring(from-1, to) with 1-based inclusive bounds
Sub(s, from, to) == IF from > to THEN "" ELSE SubSeq(s, from, to)

\* s.slice(1, -1)
Slice1(s) == Sub(s, 2, Len(s) - 1)

RECURSIVE FirstNonSpace(_, _)
FirstNonSpace(s, i) ==
  IF i > Len(s) THEN i
  ELSE IF IsSpace(CharAt(s, i)) THEN FirstNonSpace(s, i + 1) ELSE i

RECURSIVE LastNonSpace(_, _)
LastNonSpace(s, i) ==
  IF i < 1 THEN i
  ELSE IF IsSpace(CharAt(s, i)) THEN LastNonSpace(s, i - 1) ELSE i

\* s.trim()
Trim(s) == Sub(s, FirstNonSpace(s, 1), LastNonSpace(s, Len(s)))

\* s.indexOf(c) for a one-character c, 1-based; 0 when absent (JS: -1)
RECURSIVE IndexFrom(_, _, _)
IndexFrom(s, c, i) ==
  IF i > Len(s) THEN 0
  ELSE IF CharAt(s, i) = c THEN i ELSE IndexFrom(s, c, i + 1)

IndexOf(s, c) == IndexFrom(s, c, 1)

\* s.split(c) for a one-character separator
RECURSIVE Split(_, _)
Split(s, c) ==
  LET i == IndexOf(s, c) IN
  IF i = 0 THEN <<s>>
  ELSE <<Sub(s, 1, i - 1)>> \o Split(Sub(s, i + 1, Len(s)), c)

StartsWith(s, c) == Len(s) >= 1 /\ CharAt(s, 1) = c

EndsWith(s, c) == Len(s) >= 1 /\ CharAt(s, Len(s)) = c

\* needle occurs in s at 1-based position i
MatchesAt(s, needle, i) ==
  /\ i >= 1
  /\ i + Len(needle) - 1 <= Len(s)
  /\ Sub(s, i, i + Len(needle) - 1) = needle

\* s.includes(needle)
StrIncludes(s, needle) == \E i \in 1..(Len(s) + 1) : MatchesAt(s, needle, i)

\* every character of s[from..to] is in \s
AllSpace(s, from, to) == \A k \in from..to : IsSpace(CharAt(s, k))

(***************************************************************************)
(* JavaScript values                                                       *)
(***************************************************************************)

StrV(s) == [t |-> "string", v |-> s]

BoolV(b) == [t |-> "boolean", v |-> b]

IntV(n) == [t |-> "number", v |-> n]

\* an array of strings
ArrV(q) == [t |-> "array", v |-> q]

Undefined == [t |-> "undefined", v |-> "undefined"]

\* the value map() gets from the catch branch
Null == [t |-> "null", v |-> "null"]

\* an exception leaving a function
Throw(e) == [t |-> "throw", v |-> e]

\* ToBoolean: what `a || b` and filter(post => post.featured) test
Truthy(a) ==
  CASE a.t = "string" -> a.v # ""
    [] a.t = "boolean" -> a.v
    [] a.t = "number" -> a.v # 0
    [] a.t = "array" -> TRUE
    [] OTHER -> FALSE

\* Or with its operands taken in the wrong order: default || value
OrSwapped(a, b) == IF Truthy(b) THEN b ELSE a

\* a || b
Or(a, b) == IF Truthy(a) THEN a ELSE b

\* a === b
StrictEq(a, b) == a.t = b.t /\ a.v = b.v

DigitVal(c) == IndexOf("0123456789", c) - 1

\* parseInt(s, 10) of a string of digits
RECURSIVE ParseInt(_)
ParseInt(s) ==
  IF Len(s) = 0 THEN 0
  ELSE 10 * ParseInt(Sub(s, 1, Len(s) - 1)) + DigitVal(CharAt(s, Len(s)))

\* /^\d+$/.test(s)
AllDigits(s) == Len(s) >= 1 /\ \A i \in 1..Len(s) : IsDigit(CharAt(s, i))

(***************************************************************************)
(* parseFrontmatter                                                        *)
(***************************************************************************)

\* Positions of the newline that `---\s*\n` can end at: s starts with ---,
\* then blanks only up to the newline at i.
OpenEnds(s) ==
  IF MatchesAt(s, "---", 1)
  THEN {i \in 4..Len(s) : CharAt(s, i) = "\n" /\ AllSpace(s, 4, i - 1)}
  ELSE {}

\* Positions k of the newline that `\n---\s*\n` can end at when it starts at j
CloseEnds(s, j) ==
  IF CharAt(s, j) = "\n" /\ MatchesAt(s, "---", j + 1)
  THEN {k \in (j + 4)..Len(s) : CharAt(s, k) = "\n" /\ AllSpace(s, j + 4, k - 1)}
  ELSE {}

\* Start positions of a closing delimiter at or after position from
CloseStarts(s, from) == {j \in from..Len(s) : CloseEnds(s, j) # {}}

SetMax(S) == CHOOSE x \in S : \A y \in S : y <= x

SetMin(S) == CHOOSE x \in S : \A y \in S : x <= y

\* The regular expression with the m flag: ^ also matches after a newline,
\* so the block is found at the first line start where the pattern matches
FrontmatterRegexMultiline(s) ==
  LET starts == {p \in 1..Len(s) :
                   /\ (p = 1 \/ CharAt(s, p - 1) = "\n")
                   /\ \E i \in OpenEnds(Sub(s, p, Len(s))) :
                        CloseStarts(Sub(s, p, Len(s)), i + 1) # {}}
  IN IF starts = {} THEN [matched |-> FALSE, g1 |-> "", g2 |-> ""]
     ELSE LET t == Sub(s, SetMin(starts), Len(s))
              i == SetMax({x \in OpenEnds(t) : CloseStarts(t, x + 1) # {}})
              j == SetMin(CloseStarts(t, i + 1))
              k == SetMax(CloseEnds(t, j))
          IN [matched |-> TRUE,
              g1 |-> Sub(t, i + 1, j - 1),
              g2 |-> Sub(t, k + 1, Len(t))]

\* content.match(/^---\s*\n([\s\S]*?)\n---\s*\n([\s\S]*)$/): the greedy \s*
\* takes the last newline of the blank run that still lets the rest match,
\* the lazy group 1 stops at the first closing delimiter, the second greedy
\* \s* again runs to the last newline of its blank run, group 2 is the rest.
FrontmatterRegex(s) ==
  LET opens == {i \in OpenEnds(s) : CloseStarts(s, i + 1) # {}} IN
  IF opens = {} THEN [matched |-> FALSE, g1 |-> "", g2 |-> ""]
  ELSE LET i == SetMax(opens)
           j == SetMin(CloseStarts(s, i + 1))
           k == SetMax(CloseEnds(s, j))
       IN [matched |-> TRUE,
           g1 |-> Sub(s, i + 1, j - 1),
           g2 |-> Sub(s, k + 1, Len(s))]

\* "Remove quotes": a value that starts and ends with the same quote character
Unquote(value) ==
  IF \/ StartsWith(value, "\"") /\ EndsWith(value, "\"")
     \/ StartsWith(value, "'") /\ EndsWith(value, "'")
  THEN Slice1(value)
  ELSE value

\* item.replace(/^["']|["']$/g, ''): one leading and one trailing quote
\* character are dropped (the two matches never overlap)
StripQuoteChars(item) ==
  LET a == IF Len(item) >= 1 /\ IsQuote(CharAt(item, 1))
           THEN Sub(item, 2, Len(item)) ELSE item
  IN IF Len(a) >= 1 /\ IsQuote(CharAt(a, Len(a)))
     THEN Sub(a, 1, Len(a) - 1) ELSE a

\* The list without the final filter: empty items stay
ParseArrayKeepEmpty(arrayContent) ==
  LET items == Split(arrayContent, ",") IN
  [n \in 1..Len(items) |-> StripQuoteChars(Trim(items[n]))]

\* arrayContent.split(',').map(trim + replace).filter(item.length > 0)
ParseArray(arrayContent) ==
  LET items == Split(arrayContent, ",")
      mapped == [n \in 1..Len(items) |-> StripQuoteChars(Trim(items[n]))]
  IN SelectSeq(mapped, LAMBDA item : Len(item) > 0)

\* The typed value with a case-insensitive test for the boolean tokens
ParseValueAnyCase(raw) ==
  LET value == Unquote(raw) IN
  IF StartsWith(value, "[") /\ EndsWith(value, "]")
  THEN ArrV(ParseArray(Slice1(value)))
  ELSE IF value \in {"true", "True", "TRUE"} THEN BoolV(TRUE)
  ELSE IF value \in {"false", "False", "FALSE"} THEN BoolV(FALSE)
  ELSE IF AllDigits(value) THEN IntV(ParseInt(value))
  ELSE StrV(value)

\* The typed value of one header value (after trim)
ParseValue(raw) ==
  LET value == Unquote(raw) IN
  IF StartsWith(value, "[") /\ EndsWith(value, "]")
  THEN ArrV(ParseArray(Slice1(value)))
  ELSE IF value = "true" THEN BoolV(TRUE)
  ELSE IF value = "false" THEN BoolV(FALSE)
  ELSE IF AllDigits(value) THEN IntV(ParseInt(value))
  ELSE StrV(value)

\* data[key] = value
Put(data, key, value) ==
  [x \in DOMAIN data \cup {key} |-> IF x = key THEN value ELSE data[x]]

\* The forEach callback without the test for comment lines
ParseLineNoComment(data, line) ==
  LET trimmed == Trim(line)
      colonIndex == IndexOf(trimmed, ":")
  IN IF trimmed = "" THEN data
     ELSE IF colonIndex = 0 THEN data
     ELSE Put(data,
              Trim(Sub(trimmed, 1, colonIndex - 1)),
              ParseValue(Trim(Sub(trimmed, colonIndex + 1, Len(trimmed)))))

\* The forEach callback splitting the line at its last colon
ParseLineLastColon(data, line) ==
  LET trimmed == Trim(line)
      colonIndex == IF IndexOf(trimmed, ":") = 0 THEN 0
                    ELSE SetMax({i \in 1..Len(trimmed) : CharAt(trimmed, i) = ":"})
  IN IF trimmed = "" \/ StartsWith(trimmed, "#") THEN data
     ELSE IF colonIndex = 0 THEN data
     ELSE Put(data,
              Trim(Sub(trimmed, 1, colonIndex - 1)),
              ParseValue(Trim(Sub(trimmed, colonIndex + 1, Len(trimmed)))))

\* The forEach callback: one header line applied to data
ParseLine(data, line) ==
  LET trimmed == Trim(line)
      colonIndex == IndexOf(trimmed, ":")
  IN IF trimmed = "" \/ StartsWith(trimmed, "#") THEN data
     ELSE IF colonIndex = 0 THEN data
     ELSE Put(data,
              Trim(Sub(trimmed, 1, colonIndex - 1)),
              ParseValue(Trim(Sub(trimmed, colonIndex + 1, Len(trimmed)))))

RECURSIVE ParseLines(_, _)
ParseLines(data, lines) ==
  IF lines = <<>> THEN data
  ELSE ParseLines(ParseLine(data, Head(lines)), Tail(lines))

\* {}: the object with no own keys
EmptyData == [x \in {} |-> Undefined]

\* parseFrontmatter(content): content is the value the import produced; a
\* value that is no string has no match method and the call throws.
parseFrontmatter(content) ==
  IF content.t # "string" THEN Throw("TypeError")
  ELSE LET m == FrontmatterRegex(content.v) IN
       IF ~m.matched THEN [t |-> "ok", data |-> EmptyData, content |-> content.v]
       ELSE [t |-> "ok",
             data |-> ParseLines(EmptyData, Split(m.g1, "\n")),
             content |-> m.g2]

\* frontmatter.key: undefined when the object has no such key
Get(data, key) == IF key \in DOMAIN data THEN data[key] ELSE Undefined


(***************************************************************************)
(* Date: the time value of a date, as <<day, ms>> since the epoch (a time  *)
(* value in milliseconds does not fit the checker's integers)              *)
(***************************************************************************)

MsPerDay == 86400000

NaNTime == [nan |-> TRUE, day |-> 0, ms |-> 0]

TimeOf(day, ms) == [nan |-> FALSE, day |-> day, ms |-> ms]

IsLeap(y) == (y % 4 = 0 /\ y % 100 # 0) \/ y % 400 = 0

DaysInMonth(y, m) ==
  IF m = 2 THEN (IF IsLeap(y) THEN 29 ELSE 28)
  ELSE IF m \in {4, 6, 9, 11} THEN 30 ELSE 31

\* Day number of the civil date y-m-d (proleptic Gregorian, 1970-01-01 = 0)
DaysFromCivil(y, m, d) ==
  LET yy == IF m <= 2 THEN y - 1 ELSE y
      era == yy \div 400
      yoe == yy - era * 400
      mp == IF m > 2 THEN m - 3 ELSE m + 9
      doy == (153 * mp + 2) \div 5 + d - 1
      doe == yoe * 365 + yoe \div 4 - yoe \div 100 + doy
  IN era * 146097 + doe - 719468

\* The civil date of a day number
CivilFromDays(z0) ==
  LET z == z0 + 719468
      era == z \div 146097
      doe == z - era * 146097
      yoe == (doe - doe \div 1460 + doe \div 36524 - doe \div 146096) \div 365
      doy == doe - (365 * yoe + yoe \div 4 - yoe \div 100)
      mp == (5 * doy + 2) \div 153
      d == doy - (153 * mp + 2) \div 5 + 1
      m == IF mp < 10 THEN mp + 3 ELSE mp - 9
      y == yoe + era * 400 + (IF m <= 2 THEN 1 ELSE 0)
  IN [y |-> y, m |-> m, d |-> d]

Digit(n) == CharAt("0123456789", n + 1)

Pad2(n) == Digit((n \div 10) % 10) \o Digit(n % 10)

Pad4(n) == Pad2(n \div 100) \o Pad2(n % 100)

\* The date put together from getMonth(), which counts months from 0
ToISODateZeroBasedMonth(day) ==
  LET c == CivilFromDays(day) IN
  Pad4(c.y) \o "-" \o Pad2(c.m - 1) \o "-" \o Pad2(c.d)

\* new Date().toISOString().split('T')[0] when the clock reads day number day
ToISODate(day) ==
  LET c == CivilFromDays(day) IN Pad4(c.y) \o "-" \o Pad2(c.m) \o "-" \o Pad2(c.d)

\* Date.parse of a string: the date-only form YYYY-MM-DD is UTC midnight of
\* that day; a string that is no date (a word, the empty string) is NaN.
DateParse(s) ==
  IF /\ Len(s) = 10
     /\ AllDigits(Sub(s, 1, 4)) /\ CharAt(s, 5) = "-"
     /\ AllDigits(Sub(s, 6, 7)) /\ CharAt(s, 8) = "-"
     /\ AllDigits(Sub(s, 9, 10))
  THEN LET y == ParseInt(Sub(s, 1, 4))
           m == ParseInt(Sub(s, 6, 7))
           d == ParseInt(Sub(s, 9, 10))
       IN IF m >= 1 /\ m <= 12 /\ d >= 1 /\ d <= DaysInMonth(y, m)
          THEN TimeOf(DaysFromCivil(y, m, d), 0)
          ELSE NaNTime
  ELSE NaNTime

\* array.join(",")
RECURSIVE Join(_)
Join(q) ==
  IF q = <<>> THEN ""
  ELSE IF Len(q) = 1 THEN q[1]
  ELSE q[1] \o "," \o Join(Tail(q))

\* new Date(value).getTime(): a number is the time value itself, true is 1,
\* a string is parsed, an array is parsed as its string form
DateTime(value) ==
  CASE value.t = "string" -> DateParse(value.v)
    [] value.t = "number" -> TimeOf(value.v \div MsPerDay, value.v % MsPerDay)
    [] value.t = "boolean" -> TimeOf(0, IF value.v THEN 1 ELSE 0)
    [] value.t = "array" -> DateParse(Join(value.v))
    [] OTHER -> NaNTime

\* Sign of x - y for time values; nan when either is NaN
TimeMinus(x, y) ==
  IF x.nan \/ y.nan THEN [nan |-> TRUE, sign |-> 0]
  ELSE [nan |-> FALSE,
        sign |-> IF x.day # y.day THEN (IF x.day > y.day THEN 1 ELSE -1)
                 ELSE IF x.ms # y.ms THEN (IF x.ms > y.ms THEN 1 ELSE -1)
                 ELSE 0]

(***************************************************************************)
(* Post normalizer                                                         *)
(***************************************************************************)

wordsPerMinute == 200

\* content.trim().split(/\s+/).length: the blank-separated tokens, and one
\* (the empty string) when nothing is left after trim
WordCount(content) ==
  LET s == Trim(content) IN
  IF s = "" THEN 1
  ELSE Cardinality({i \in 1..Len(s) :
         /\ ~IsSpace(CharAt(s, i))
         /\ (i = 1 \/ IsSpace(CharAt(s, i - 1)))})

\* The estimate with Math.round in place of Math.ceil
estimateReadTimeRounded(content) ==
  (2 * WordCount(content) + wordsPerMinute) \div (2 * wordsPerMinute)

\* Math.ceil(words / wordsPerMinute)
estimateReadTime(content) ==
  (WordCount(content) + wordsPerMinute - 1) \div wordsPerMinute

\* The body of the try block of the map callback: the post of one file, or
\* the exception parseFrontmatter threw. index is the 1-based position of
\* the file (index + 1 in the code), now the day the clock reads.
TryBody(file, index, now) ==
  LET r == parseFrontmatter(file.content) IN
  IF r.t = "throw" THEN r
  ELSE LET frontmatter == r.data
           markdownContent == r.content
       IN [t |-> "post",
           id |-> index,
           title |-> Or(Get(frontmatter, "title"), StrV("Untitled")),
           slug |-> Or(Get(frontmatter, "slug"), StrV(file.name)),
           date |-> Or(Get(frontmatter, "date"), StrV(ToISODate(now))),
           excerpt |-> Or(Get(frontmatter, "excerpt"), StrV("")),
           tags |-> Or(Get(frontmatter, "tags"), ArrV(<<>>)),
           featured |-> Or(Get(frontmatter, "featured"), BoolV(FALSE)),
           readTime |-> Or(Get(frontmatter, "readTime"),
                           IntV(estimateReadTime(markdownContent))),
           content |-> markdownContent]

\* The map callback without its try/catch: the exception leaves the callback
MapCallbackNoCatch(file, index, now) == TryBody(file, index, now)

\* The map callback: try { ... } catch { console.error(...); return null }
MapCallback(file, index, now) ==
  LET r == TryBody(file, index, now) IN
  IF r.t = "throw" THEN Null ELSE r

\* A filter that numbers the posts it keeps by their place in the result
FilterNotNullRenumbered(q) ==
  LET kept == SelectSeq(q, LAMBDA post : post.t # "null")
  IN [n \in 1..Len(kept) |-> [kept[n] EXCEPT !.id = n]]

\* .filter(post => post !== null)
FilterNotNull(q) == SelectSeq(q, LAMBDA post : post.t # "null")

(***************************************************************************)
(* Array.prototype.sort                                                    *)
(***************************************************************************)

\* The comparator (a, b) => new Date(b.date).getTime() - new Date(a.date).getTime()
DateComparator(a, b) == TimeMinus(DateTime(b.date), DateTime(a.date))

\* SortCompare: a NaN from the comparator counts as +0
ByDate(a, b) == LET v == DateComparator(a, b) IN IF v.nan THEN 0 ELSE v.sign

\* m[i, j] = cmp(q[i], q[j]): every answer the comparator gives on q
DateMatrix(q) ==
  [i \in 1..Len(q), j \in 1..Len(q) |-> ByDate(q[i], q[j])]

\* Whether the comparator with answers m is a consistent comparator for the
\* n elements (ECMAScript 23.1.3.30): only then is the sort order defined.
Consistent(n, m) ==
  \A i, j, k \in 1..n :
    /\ m[i, i] = 0
    /\ (m[i, j] < 0) = (m[j, i] > 0)
    /\ (m[i, j] = 0 /\ m[j, k] = 0) => m[i, k] = 0
    /\ (m[i, j] < 0 /\ m[j, k] < 0) => m[i, k] < 0
    /\ (m[i, j] > 0 /\ m[j, k] > 0) => m[i, k] > 0

\* The place of element i in the stable sorted order: after every element
\* that sorts before it and every earlier element that sorts with it
Rank(i, n, m) ==
  1 + Cardinality({j \in 1..n : m[j, i] < 0 \/ (m[j, i] = 0 /\ j < i)})

\* The indexes 1..n in stable sorted order
SortedIndexes(n, m) == [r \in 1..n |-> CHOOSE i \in 1..n : Rank(i, n, m) = r]

\* q with its elements in the order ord
Reorder(q, ord) == [k \in 1..Len(q) |-> q[ord[k]]]

\* The stable sort of q (the comparator is asked once for each pair)
StableSort(q, m) ==
  CHOOSE r \in {Reorder(q, ord) : ord \in {SortedIndexes(Len(q), m)}} : TRUE

Perms(n) == {p \in [1..n -> 1..n] : \A i, j \in 1..n : p[i] = p[j] => i = j}

OutcomesFor(q, m) ==
  IF Consistent(Len(q), m)
  THEN {Reorder(q, ord) : ord \in {SortedIndexes(Len(q), m)}}
  ELSE {Reorder(q, p) : p \in Perms(Len(q))}

\* The arrays q.sort(cmp) can leave: the stable sorted order under a
\* consistent comparator, an implementation-defined order otherwise.
SortOutcomes(q, m) == OutcomesFor(q, m)

(***************************************************************************)
(* Default sort order of strings (UTF-16 code units; the model's texts are *)
(* ASCII)                                                                  *)
(***************************************************************************)

\* The characters of code 32 to 95, and of code 97 to 126
AsciiLow ==
  " !\"#$%&'()*+,-./0123456789:;<=>?@ABCDEFGHIJKLMNOPQRSTUVWXYZ[\\]^_"

AsciiHigh == "abcdefghijklmnopqrstuvwxyz{|}~"

\* c.charCodeAt(0)
CharCode(c) ==
  CASE c = "\t" -> 9
    [] c = "\n" -> 10
    [] c = "\f" -> 12
    [] c = "\r" -> 13
    [] \E i \in 1..Len(AsciiLow) : CharAt(AsciiLow, i) = c ->
         31 + (CHOOSE i \in 1..Len(AsciiLow) : CharAt(AsciiLow, i) = c)
    [] OTHER ->
         96 + (CHOOSE i \in 1..Len(AsciiHigh) : CharAt(AsciiHigh, i) = c)

\* -1, 0 or 1 as a sorts before, with or after b in code-unit order: the
\* first position where they differ decides, else the shorter sorts first
StrCompare(a, b) ==
  LET n == IF Len(a) < Len(b) THEN Len(a) ELSE Len(b) IN
  IF \A i \in 1..n : CharAt(a, i) = CharAt(b, i)
  THEN (IF Len(a) < Len(b) THEN -1 ELSE IF Len(a) > Len(b) THEN 1 ELSE 0)
  ELSE LET d == CHOOSE i \in 1..n :
                  /\ CharAt(a, i) # CharAt(b, i)
                  /\ \A k \in 1..(i - 1) : CharAt(a, k) = CharAt(b, k)
       IN IF CharCode(CharAt(a, d)) < CharCode(CharAt(b, d)) THEN -1 ELSE 1

\* Number.prototype.toString of a natural number
RECURSIVE NatToStr(_)
NatToStr(n) == IF n < 10 THEN Digit(n) ELSE NatToStr(n \div 10) \o Digit(n % 10)

\* ToString of a value an array of tags can hold
ToStr(a) ==
  CASE a.t = "string" -> a.v
    [] a.t = "number" -> NatToStr(a.v)
    [] a.t = "boolean" -> IF a.v THEN "true" ELSE "false"
    [] a.t = "array" -> Join(a.v)
    [] OTHER -> a.t

\* The comparison sort() uses when it is given no comparator
DefaultCompare(a, b) == StrCompare(ToStr(a), ToStr(b))

\* q.sort(): the stable sort of q in the default order (each pair is
\* compared once)
DefaultSort(q) ==
  CHOOSE r \in {StableSort(q, m) :
                  m \in {[i \in 1..Len(q), j \in 1..Len(q) |->
                            DefaultCompare(q[i], q[j])]}} : TRUE

(***************************************************************************)
(* Accessors. Each yields the value the call returns (or the exception it  *)
(* throws) and the blogPosts array as the call leaves it.                  *)
(***************************************************************************)

\* A returned post, a returned array
Obj(post) == [t |-> "object", v |-> post]

List(q) == [t |-> "list", v |-> q]

\* blogPosts.findLast(post => post.slug === slug)
RECURSIVE FindLast(_, _)
FindLast(posts, slug) ==
  IF posts = <<>> THEN Undefined
  ELSE IF StrictEq(posts[Len(posts)].slug, StrV(slug))
       THEN Obj(posts[Len(posts)])
       ELSE FindLast(SubSeq(posts, 1, Len(posts) - 1), slug)

\* blogPosts.find(post => post.slug === slug)
RECURSIVE Find(_, _)
Find(posts, slug) ==
  IF posts = <<>> THEN Undefined
  ELSE IF StrictEq(Head(posts).slug, StrV(slug)) THEN Obj(Head(posts))
  ELSE Find(Tail(posts), slug)

getBlogPostBySlug(posts, slug) ==
  [result |-> Find(posts, slug), blogPosts |-> posts]

getFeaturedBlogPosts(posts) ==
  [result |-> List(SelectSeq(posts, LAMBDA post : Truthy(post.featured))),
   blogPosts |-> posts]

\* post.tags.includes(tag): Array.prototype.includes on an array,
\* String.prototype.includes on a string; no other value has the method
HasIncludes(tags) == tags.t \in {"array", "string"}

TagsInclude(tags, tag) ==
  IF tags.t = "array" THEN \E i \in 1..Len(tags.v) : tags.v[i] = tag
  ELSE StrIncludes(tags.v, tag)

getBlogPostsByTag(posts, tag) ==
  [result |->
     IF \E i \in 1..Len(posts) : ~HasIncludes(posts[i].tags)
     THEN Throw("TypeError")
     ELSE List(SelectSeq(posts, LAMBDA post : TagsInclude(post.tags, tag))),
   blogPosts |-> posts]

\* blogPosts.flatMap(post => post.tags): an array is spread one level, any
\* other value is appended as it is
RECURSIVE FlatMapTags(_)
FlatMapTags(posts) ==
  IF posts = <<>> THEN <<>>
  ELSE LET tags == Head(posts).tags IN
       (IF tags.t = "array"
        THEN [i \in 1..Len(tags.v) |-> StrV(tags.v[i])]
        ELSE <<tags>>) \o FlatMapTags(Tail(posts))

\* Array.from(new Set(q)): first occurrences, in insertion order
RECURSIVE SetInsert(_, _)
SetInsert(seen, q) ==
  IF q = <<>> THEN seen
  ELSE SetInsert(IF \E i \in 1..Len(seen) : StrictEq(seen[i], Head(q))
                 THEN seen ELSE Append(seen, Head(q)),
                 Tail(q))

\* The flattened tags without the Set: every occurrence is kept
DedupeNone(q) == q

Dedupe(q) == SetInsert(<<>>, q)

\* getAllTags with flatMap(post => post.tags.sort()): the tags of each post
\* are sorted in place before they are collected
getAllTagsSortingPosts(posts) ==
  [result |->
     CHOOSE r \in {List(DefaultSort(unique)) :
                     unique \in {Dedupe(FlatMapTags(posts))}} : TRUE,
   blogPosts |->
     [n \in 1..Len(posts) |->
        IF posts[n].tags.t = "array"
        THEN [posts[n] EXCEPT !.tags =
                ArrV(CHOOSE r \in {[i \in 1..Len(x) |-> x[i].v] :
                       x \in {DefaultSort([i \in 1..Len(posts[n].tags.v) |->
                                            StrV(posts[n].tags.v[i])])}} : TRUE)]
        ELSE posts[n]]]

getAllTags(posts) ==
  [result |->
     CHOOSE r \in {List(DefaultSort(unique)) :
                     unique \in {Dedupe(FlatMapTags(posts))}} : TRUE,
   blogPosts |-> posts]

(***************************************************************************)
(* The module as a state machine                                           *)
(***************************************************************************)

VARIABLES
  blogPostFiles,  \* the file list the module maps over
  now,            \* the day the clock reads when the module is loaded
  phase,          \* "load", then "ready" (or "failed": evaluation threw)
  blogPosts,      \* the exported array
  built,          \* blogPosts as construction left it
  lastCall,       \* the latest accessor call: [fn, arg, result]
  input,          \* the text, or the build environment, an operation is given
  output,         \* what the operation made of input; what a page shows
  copied,         \* the copied flag of one CodeBlock widget
  timers,         \* its pending timeouts: the times they are due, oldest first
  writes,         \* its clipboard writes that have not settled yet
  clock,          \* milliseconds since the widget was mounted
  copiedAt,       \* the time of the latest copy that succeeded, if any
  handled         \* how the latest handleCopy that finished ended

\* The state of the content module and the state of the widget
contentVars ==
  <<blogPostFiles, now, phase, blogPosts, built, lastCall, input, output>>

widgetVars == <<copied, timers, writes, clock, copiedAt, handled>>

vars == <<contentVars, widgetVars>>

\* useState(false): the widget as it is mounted, nothing clicked yet
FreshWidget ==
  /\ copied = FALSE
  /\ timers = <<>>
  /\ writes = 0
  /\ clock = 0
  /\ copiedAt = <<>>
  /\ handled = "none"

\* Bound of the model: the longest file list
MaxFiles == 3

\* Days the clock may read when the module is loaded: 2023-12-31 and
\* 2024-02-29 as day numbers (the next day is in another month, or year)
ClockDays == {19722, 19782}

File(name, text) == [name |-> name, content |-> StrV(text)]

\* The source documents a file list is drawn from. The last one stands for
\* an import that did not yield a string.
Library ==
  << File("alpha",
       "---\ntitle: \"Alpha\"\ndate: \"2024-03-01\"\nexcerpt: \"First\"\ntags: [\"Rust\", \"Go\"]\nfeatured: true\nreadTime: 8\n---\n\nAlpha body"),
     File("beta",
       "---\ntitle: Beta\nslug: \"alpha\"\ndate: 2024-01-15\nexcerpt: \"\"\ntags: [rust, \"Go\"]\nfeatured: false\nreadTime: 0\n---\nBeta body text"),
     File("gamma",
       "---\ntitle: \"\"\nslug: \"\"\ndate: 2024-02-20\ntags: Rusty\nfeatured: yes\n---\nGamma"),
     File("delta",
       "---\ndate: soon\ntags: []\n---\nDelta"),
     File("epsilon",
       "Plain text without a header"),
     File("eta",
       "---\ntitle: 0\nslug: 42\ndate: \"\"\ntags: 5\nfeatured: 1\n---\nEta"),
     File("theta",
       "---\ndate: 2024-03-01\ntags: [\"Go\", \"Async\"]\n---\nTheta"),
     [name |-> "zeta", content |-> Undefined] >>

\* q[i] for the indexes i of S, in increasing order of index
RECURSIVE Pick(_, _, _)
Pick(q, S, i) ==
  IF i > Len(q) THEN <<>>
  ELSE (IF i \in S THEN <<q[i]>> ELSE <<>>) \o Pick(q, S, i + 1)

Reverse(q) == [i \in 1..Len(q) |-> q[Len(q) + 1 - i]]

\* The lists of at most n distinct documents, in Library order or in the
\* opposite order
FileLists(n) ==
  UNION {{Pick(Library, S, 1), Reverse(Pick(Library, S, 1))} :
         S \in {T \in SUBSET (1..Len(Library)) : Cardinality(T) <= n}}

\* Arguments the accessors are called with
SlugArgs == {"alpha", "Alpha", "42"}

TagArgs == {"Rust", "rust", "Go"}

NoCall == [fn |-> "none", arg |-> "", result |-> Undefined]

Init ==
  /\ FreshWidget
  /\ blogPostFiles \in FileLists(MaxFiles)
  /\ now = 19782
  /\ phase = "load"
  /\ blogPosts = <<>>
  /\ built = <<>>
  /\ lastCall = NoCall
  /\ input = ""
  /\ output = Undefined

\* Evaluation of the module: blogPostFiles.map(...).filter(...).sort(...).
\* The clock may pass midnight between two files. An exception that leaves
\* the map callback ends the evaluation and nothing is exported.
Build ==
  /\ phase = "load"
  /\ \E k \in 0..Len(blogPostFiles) :
       \E reads \in {[i \in 1..Len(blogPostFiles) |->
                        IF i <= k THEN now ELSE now + 1]} :
         \E mapped \in {[i \in 1..Len(blogPostFiles) |->
                           MapCallback(blogPostFiles[i], i, reads[i])]} :
           IF \E i \in 1..Len(mapped) : mapped[i].t = "throw"
           THEN /\ phase' = "failed"
                /\ UNCHANGED <<blogPosts, built>>
           ELSE /\ phase' = "ready"
                /\ \E kept \in {FilterNotNull(mapped)} :
                     \E sorted \in UNION {SortOutcomes(kept, m) : m \in {DateMatrix(kept)}} :
                       /\ blogPosts' = sorted
                       /\ built' = sorted
  /\ UNCHANGED <<blogPostFiles, now, lastCall, input, output, widgetVars>>

\* A call of accessor fn with argument arg that yields r
Called(fn, arg, r) ==
  /\ lastCall' = [fn |-> fn, arg |-> arg, result |-> r.result]
  /\ blogPosts' = r.blogPosts
  /\ UNCHANGED <<blogPostFiles, now, phase, built, input, output, widgetVars>>

CallGetBlogPostBySlug ==
  /\ phase = "ready"
  /\ \E slug \in SlugArgs :
       \E r \in {getBlogPostBySlug(blogPosts, slug)} :
         Called("getBlogPostBySlug", slug, r)

CallGetFeaturedBlogPosts ==
  /\ phase = "ready"
  /\ \E r \in {getFeaturedBlogPosts(blogPosts)} :
       Called("getFeaturedBlogPosts", "", r)

CallGetBlogPostsByTag ==
  /\ phase = "ready"
  /\ \E tag \in TagArgs :
       \E r \in {getBlogPostsByTag(blogPosts, tag)} :
         Called("getBlogPostsByTag", tag, r)

CallGetAllTags ==
  /\ phase = "ready"
  /\ \E r \in {getAllTags(blogPosts)} : Called("getAllTags", "", r)

Next ==
  \/ Build
  \/ CallGetBlogPostBySlug
  \/ CallGetFeaturedBlogPosts
  \/ CallGetBlogPostsByTag
  \/ CallGetAllTags

Spec == Init /\ [][Next]_vars

(***************************************************************************)
(* The sort alone: file lists of up to five documents that differ in their *)
(* dates only                                                              *)
(***************************************************************************)

SortLibrary ==
  << File("first", "---\ndate: 2024-01-15\n---\nFirst"),
     File("second", "---\ndate: 2024-01-15\n---\nSecond"),
     File("undated", "---\ndate: soon\n---\nUndated"),
     File("third", "---\ndate: 2024-02-20\n---\nThird"),
     File("fourth", "---\ndate: 2024-02-20\n---\nFourth") >>

\* The documents of SortLibrary at the places S, in its order or reversed
SortLists ==
  UNION {{Pick(SortLibrary, S, 1), Reverse(Pick(SortLibrary, S, 1))} :
         S \in SUBSET (1..Len(SortLibrary))}

InitSort ==
  /\ FreshWidget
  /\ blogPostFiles \in SortLists
  /\ now = 19782
  /\ phase = "load"
  /\ blogPosts = <<>>
  /\ built = <<>>
  /\ lastCall = NoCall
  /\ input = ""
  /\ output = Undefined

SpecSort == InitSort /\ [][Build]_vars

(***************************************************************************)
(* One document on its own: parseFrontmatter and the map callback applied  *)
(* to a text put together from the pieces below                            *)
(***************************************************************************)

DocPrefixes == {"", " ", "\n", "intro\n"}

DocOpens == {"---\n", "--- \n", "---\r\n", "---\n\n", "----\n", "---", "--\n"}

DocHeaders == {"", "k: v", "title: \"T\"\ntags: [a, b]"}

DocCloses == {"\n---\n", "\n---", "\n--- \n\n", "\n----\n", "\n", "\n---x\n"}

DocBodies == {"", "body", "\none two\n---\nthree\n"}

Documents ==
  {p \o o \o h \o c \o b :
     p \in DocPrefixes, o \in DocOpens, h \in DocHeaders, c \in DocCloses,
     b \in DocBodies}

\* The file name the document is listed under
DocName == "draft"

InitDoc ==
  /\ FreshWidget
  /\ input \in Documents
  /\ now \in ClockDays
  /\ phase = "doc"
  /\ output = Undefined
  /\ blogPostFiles = <<>>
  /\ blogPosts = <<>>
  /\ built = <<>>
  /\ lastCall = NoCall

\* parseFrontmatter(input)
ParseDoc ==
  /\ phase = "doc"
  /\ output' = parseFrontmatter(StrV(input))
  /\ phase' = "parsed"
  /\ UNCHANGED <<blogPostFiles, now, blogPosts, built, lastCall, input, widgetVars>>

\* The map callback on { name: DocName, content: input } as the first file
NormalizeDoc ==
  /\ phase = "doc"
  /\ output' = MapCallback(File(DocName, input), 1, now)
  /\ phase' = "normalized"
  /\ UNCHANGED <<blogPostFiles, now, blogPosts, built, lastCall, input, widgetVars>>

NextDoc == ParseDoc \/ NormalizeDoc

SpecDoc == InitDoc /\ [][NextDoc]_vars

(***************************************************************************)
(* One document whose body has a given number of words: the read-time      *)
(* estimate and the body parseFrontmatter hands on                         *)
(***************************************************************************)

\* n copies of s
RECURSIVE Repeat(_, _)
Repeat(s, n) ==
  IF n = 0 THEN ""
  ELSE LET half == Repeat(s, n \div 2) IN
       IF n % 2 = 0 THEN half \o half ELSE half \o half \o s

\* A text of n words with sep between two words
Words(n, sep) == IF n = 0 THEN "" ELSE "w" \o Repeat(sep \o "w", n - 1)

BodyHeaders ==
  {"", "---\ntitle: T\n---\n", "---\ntitle: T\n--- \n",
   "---\nreadTime: 7\n---\n", "---\nreadTime: 0\n---\n"}

\* What stands between the header and the first word
BodyLeads == {"", "\n", "\n\n", "  ", " \n\t"}

BodyWordCounts == {0, 1, 2, 199, 200, 201, 400, 401}

BodySeparators == {" ", "\n\n"}

BodyTails == {"", "\n"}

BodyDocuments ==
  {h \o lead \o Words(n, sep) \o tail :
     h \in BodyHeaders, lead \in BodyLeads, n \in BodyWordCounts,
     sep \in BodySeparators, tail \in BodyTails}

InitBody ==
  /\ FreshWidget
  /\ input \in BodyDocuments
  /\ now = 19782
  /\ phase = "doc"
  /\ output = Undefined
  /\ blogPostFiles = <<>>
  /\ blogPosts = <<>>
  /\ built = <<>>
  /\ lastCall = NoCall

SpecBody == InitBody /\ [][NextDoc]_vars

(***************************************************************************)
(* One document with a header of one or two lines                          *)
(***************************************************************************)

\* Lines that name a boolean-like value
BooleanLines ==
  {"featured: true", "featured: false", "featured: yes", "featured: True",
   "featured: TRUE", "featured: \"true\"", "featured: 'false'",
   "featured:   true  ", "featured: \" true \"", "featured: \"true'",
   "featured: \"\"true\"\"", "draft:false", "featured: truex"}

\* Lines that name a bracketed list
ArrayLines ==
  {"tags: [\"Rust\", \"Go\", \"\"]", "tags: [a,b , 'c']", "tags: []",
   "tags: [ , ]", "tags: [ \"x y\" ,,z]", "tags: \"[q, r]\"",
   "tags: ['\"', b']", "tags: [\"\"a\"\", \" \"]"}

\* Lines that name something else
ScalarLines ==
  {"tags: Rusty", "tags: 5", "tags: true", "tags: \"\"", "title: a: b", "title: \"A: B\"",
   "title: \"T\"", "readTime: 12", "slug: []", "slug: 2024", "slug: 0", ": orphan"}

\* Lines the parser passes over
SkippedLines ==
  {"", "   ", "\t", "# note", "#tags: [x]", "  # title: no", "no colon here"}

HeaderLines == BooleanLines \cup ArrayLines \cup ScalarLines \cup SkippedLines

HeaderBody == "Body text"

\* The document with the header lines q
HeaderDocument(q) ==
  "---\n" \o q[1] \o (IF Len(q) = 2 THEN "\n" \o q[2] ELSE "")
    \o "\n---\n" \o HeaderBody

HeaderDocuments ==
  {HeaderDocument(q) :
     q \in {<<a>> : a \in HeaderLines} \cup (HeaderLines \X HeaderLines)}

InitHeader ==
  /\ FreshWidget
  /\ input \in HeaderDocuments
  /\ now = 19782
  /\ phase = "doc"
  /\ output = Undefined
  /\ blogPostFiles = <<>>
  /\ blogPosts = <<>>
  /\ built = <<>>
  /\ lastCall = NoCall

SpecHeader == InitHeader /\ [][NextDoc]_vars

(***************************************************************************)
(* The CodeBlock widget of the post page: its copy button                  *)
(***************************************************************************)

\* The delay of the timeout that takes the acknowledgment back
AckMs == 2000

\* Bounds of the model: the time the clock runs to, and the writes and
\* timeouts that may be pending together
MaxTime == 6000

MaxPending == 3

\* The amounts of time that pass in one step
Steps == {500, 1000}

InitWidget ==
  /\ FreshWidget
  /\ blogPostFiles = <<>>
  /\ now = 19782
  /\ phase = "page"
  /\ blogPosts = <<>>
  /\ built = <<>>
  /\ lastCall = NoCall
  /\ input = ""
  /\ output = Undefined

\* onClick: handleCopy runs up to its await; the clipboard write is under way
Click ==
  /\ phase = "page"
  /\ writes + Len(timers) < MaxPending
  /\ writes' = writes + 1
  /\ UNCHANGED <<copied, timers, clock, copiedAt, handled, contentVars>>

\* A fulfilled write that sets the flag and schedules no timeout
WriteFulfilledNoTimer ==
  /\ writes > 0
  /\ writes' = writes - 1
  /\ copied' = TRUE
  /\ copiedAt' = <<clock>>
  /\ handled' = "copied"
  /\ UNCHANGED <<timers, clock, contentVars>>

\* The write is fulfilled: setCopied(true); setTimeout(..., 2000)
WriteFulfilled ==
  /\ writes > 0
  /\ writes' = writes - 1
  /\ copied' = TRUE
  /\ timers' = Append(timers, clock + AckMs)
  /\ copiedAt' = <<clock>>
  /\ handled' = "copied"
  /\ UNCHANGED <<clock, contentVars>>

\* A handler without try and catch around the steps after the await: the
\* flag is set and the timeout scheduled before the rejection shows
WriteRejectedAfterSet ==
  /\ writes > 0
  /\ writes' = writes - 1
  /\ copied' = TRUE
  /\ timers' = Append(timers, clock + AckMs)
  /\ handled' = "thrown"
  /\ UNCHANGED <<clock, copiedAt, contentVars>>

\* The write is rejected: the catch block logs the error with console.error
\* and handleCopy ends normally
WriteRejected ==
  /\ writes > 0
  /\ writes' = writes - 1
  /\ handled' = "logged"
  /\ UNCHANGED <<copied, timers, clock, copiedAt, contentVars>>

\* A timeout is due: () => setCopied(false)
TimerFires ==
  /\ timers # <<>>
  /\ Head(timers) <= clock
  /\ copied' = FALSE
  /\ timers' = Tail(timers)
  /\ UNCHANGED <<writes, clock, copiedAt, handled, contentVars>>

\* Time passes, up to the moment the next timeout is due
Tick ==
  /\ phase = "page"
  /\ \E d \in Steps :
       /\ clock + d <= MaxTime
       /\ \A n \in 1..Len(timers) : clock + d <= timers[n]
       /\ clock' = clock + d
  /\ UNCHANGED <<copied, timers, writes, copiedAt, handled, contentVars>>

NextWidget == Click \/ WriteFulfilled \/ WriteRejected \/ TimerFires \/ Tick

SpecWidget == InitWidget /\ [][NextWidget]_vars

\* Time passes beyond the horizon of the clock, to the moment the next
\* timeout is due
Drain ==
  /\ phase = "page"
  /\ timers # <<>>
  /\ clock < Head(timers)
  /\ \A d \in Steps : clock + d > MaxTime
  /\ clock' = Head(timers)
  /\ UNCHANGED <<copied, timers, writes, copiedAt, handled, contentVars>>

\* The widget with clicks up to the horizon and time that goes on after it
NextWidgetFair ==
  \/ (clock < MaxTime /\ Click)
  \/ WriteFulfilled
  \/ WriteRejected
  \/ TimerFires
  \/ Tick
  \/ Drain

\* Time passes and the event loop runs a timeout that is due; a clipboard
\* write may stay pending
SpecWidgetFair ==
  /\ InitWidget
  /\ [][NextWidgetFair]_vars
  /\ WF_vars(TimerFires)
  /\ WF_vars(Tick)
  /\ WF_vars(Drain)

(***************************************************************************)
(* The blog page: the tag buttons and the list of posts under them. output *)
(* is what the page shows: the selected tag, the tag buttons and the list. *)
(***************************************************************************)

\* One rendering of Blog with the state selectedTag. A tag taken from the
\* buttons is no string only when some post's tags are no array and no
\* string, and then getBlogPostsByTag throws whatever it is given.
RenderBlog(posts, selectedTag) ==
  [selectedTag |-> selectedTag,
   allTags |-> getAllTags(posts).result.v,
   sortedPosts |-> IF Truthy(selectedTag)
                   THEN getBlogPostsByTag(posts, ToStr(selectedTag)).result
                   ELSE List(posts)]

\* The page is opened: useState(null) and the first rendering
MountBlog ==
  /\ phase = "ready"
  /\ phase' = "blog"
  /\ output' = RenderBlog(blogPosts, Null)
  /\ UNCHANGED <<blogPostFiles, now, blogPosts, built, lastCall, input, widgetVars>>

\* onClick of the All button: setSelectedTag(null)
ClickAll ==
  /\ phase = "blog"
  /\ output.sortedPosts.t # "throw"
  /\ output' = RenderBlog(blogPosts, Null)
  /\ UNCHANGED <<blogPostFiles, now, phase, blogPosts, built, lastCall, input,
                 widgetVars>>

\* onClick of the button of a tag: setSelectedTag(tag). A rendering that
\* threw leaves no button to click.
ClickTag ==
  /\ phase = "blog"
  /\ output.sortedPosts.t # "throw"
  /\ \E n \in 1..Len(output.allTags) :
       output' = RenderBlog(blogPosts, output.allTags[n])
  /\ UNCHANGED <<blogPostFiles, now, phase, blogPosts, built, lastCall, input,
                 widgetVars>>

NextBlog == Build \/ MountBlog \/ ClickAll \/ ClickTag

SpecBlog == Init /\ [][NextBlog]_vars

(***************************************************************************)
(* The post page: how a post body becomes displayed content. The file      *)
(* holds two definitions of the page component; the first inserts the      *)
(* output of formatContent as HTML, the second renders with ReactMarkdown. *)
(***************************************************************************)

\* The backtick character
Backtick == SubSeq("`'", 1, 1)

\* lines.forEach of formatContent: html, inCodeBlock and codeContent are the
\* three variables the callback updates
RECURSIVE FormatLines(_, _, _, _)
FormatLines(lines, html, inCodeBlock, codeContent) ==
  IF lines = <<>> THEN html
  ELSE
    LET line == Head(lines) IN
    IF MatchesAt(line, Backtick \o Backtick \o Backtick, 1)
    THEN IF inCodeBlock
         THEN FormatLines(Tail(lines),
                html \o "<pre><code>" \o codeContent \o "</code></pre>",
                FALSE, "")
         ELSE FormatLines(Tail(lines), html, TRUE, codeContent)
    ELSE IF inCodeBlock
    THEN FormatLines(Tail(lines), html, TRUE, codeContent \o line \o "\n")
    ELSE FormatLines(Tail(lines),
           html \o
             (IF MatchesAt(line, "# ", 1)
              THEN "<h1 class=\"text-3xl font-bold mt-8 mb-4\">"
                     \o Sub(line, 3, Len(line)) \o "</h1>"
              ELSE IF MatchesAt(line, "## ", 1)
              THEN "<h2 class=\"text-2xl font-bold mt-6 mb-3\">"
                     \o Sub(line, 4, Len(line)) \o "</h2>"
              ELSE IF MatchesAt(line, "### ", 1)
              THEN "<h3 class=\"text-xl font-bold mt-5 mb-2\">"
                     \o Sub(line, 5, Len(line)) \o "</h3>"
              ELSE IF Trim(line) = "" THEN "<br/>"
              ELSE "<p class=\"mb-4\">" \o line \o "</p>"),
           FALSE, codeContent)

formatContent(content) == FormatLines(Split(content, "\n"), "", FALSE, "")

\* The first definition of the page:
\* dangerouslySetInnerHTML={{ __html: formatContent(post.content) }}
RenderLegacy ==
  /\ phase = "doc"
  /\ phase' = "rendered"
  /\ output' = [path |-> "formatContent",
                nodes |-> <<[kind |-> "html", value |-> formatContent(input),
                             sanitized |-> FALSE]>>]
  /\ UNCHANGED <<blogPostFiles, now, blogPosts, built, lastCall, input, widgetVars>>

\* What ReactMarkdown hands to the rehype plugins for the lines of a body: a
\* code element for a fenced block (class language-x when the fence names x)
\* and for an inline span, a raw node for a line of HTML, text otherwise
RECURSIVE RemarkLines(_, _, _, _)
RemarkLines(lines, nodes, fence, code) ==
  IF lines = <<>> THEN nodes
  ELSE
    LET line == Head(lines)
        tick == IndexOf(line, Backtick)
    IN
    IF MatchesAt(line, Backtick \o Backtick \o Backtick, 1)
    THEN IF fence.open
         THEN RemarkLines(Tail(lines),
                Append(nodes, [kind |-> "code", className |-> fence.className,
                               children |-> code]),
                [open |-> FALSE, className |-> Undefined], "")
         ELSE RemarkLines(Tail(lines), nodes,
                [open |-> TRUE,
                 className |-> IF Trim(Sub(line, 4, Len(line))) = "" THEN Undefined
                               ELSE StrV("language-" \o Trim(Sub(line, 4, Len(line))))],
                "")
    ELSE IF fence.open
    THEN RemarkLines(Tail(lines), nodes, fence, code \o line \o "\n")
    ELSE IF MatchesAt(line, "<", 1)
    THEN RemarkLines(Tail(lines), Append(nodes, [kind |-> "raw", value |-> line]),
                     fence, code)
    ELSE IF tick > 0 /\ IndexFrom(line, Backtick, tick + 1) > 0
    THEN RemarkLines(Tail(lines),
           Append(nodes, [kind |-> "code", className |-> Undefined,
                          children |-> Sub(line, tick + 1,
                                           IndexFrom(line, Backtick, tick + 1) - 1)]),
           fence, code)
    ELSE RemarkLines(Tail(lines), Append(nodes, [kind |-> "text", value |-> line]),
                     fence, code)

\* rehypePlugins={[rehypeRaw, rehypeSanitize]}: rehypeRaw parses a raw node
\* into elements, rehypeSanitize then drops script elements and event
\* handler attributes
RehypePlugins(nodes) ==
  LET raw == [n \in 1..Len(nodes) |->
                IF nodes[n].kind = "raw"
                THEN [kind |-> "html", value |-> nodes[n].value, sanitized |-> FALSE]
                ELSE nodes[n]]
      kept == SelectSeq(raw, LAMBDA e : e.kind # "html" \/ ~StrIncludes(e.value, "<script"))
  IN [n \in 1..Len(kept) |->
        IF kept[n].kind # "html" THEN kept[n]
        ELSE LET v == kept[n].value
                 at == IF StrIncludes(v, " onerror=")
                       THEN CHOOSE i \in 1..Len(v) : MatchesAt(v, " onerror=", i)
                       ELSE 0
             IN [kind |-> "html",
                 value |-> IF at = 0 THEN v ELSE Sub(v, 1, at - 1) \o ">",
                 sanitized |-> TRUE]]

\* The override that renders every code element without the widget
CodeComponentPlain(props) ==
  [kind |-> "code", className |-> props.className, children |-> props.children]

\* components.code: /language-(\w+)/.exec(className || '') decides between
\* the CodeBlock widget and a plain code element
CodeComponent(props) ==
  LET className == Or(props.className, StrV("")).v
      word(i) == \E c \in {CharAt(className, i)} :
                   /\ c # ""
                   /\ \E k \in {CharCode(c)} :
                        \/ k \in 48..57 \/ k \in 65..90 \/ k = 95 \/ k \in 97..122
      starts == {i \in 1..Len(className) :
                   MatchesAt(className, "language-", i) /\ word(i + 9)}
  IN IF starts = {}
     THEN [kind |-> "code", className |-> props.className, children |-> props.children]
     ELSE LET from == SetMin(starts) + 9
              to == SetMax({j \in from..Len(className) :
                              \A x \in from..j : word(x)})
              text == props.children
          IN [kind |-> "CodeBlock",
              className |-> props.className,
              language |-> Sub(className, from, to),
              children |-> IF Len(text) >= 1 /\ CharAt(text, Len(text)) = "\n"
                           THEN Sub(text, 1, Len(text) - 1) ELSE text,
              showLineNumbers |-> TRUE,
              copyButton |-> TRUE]

\* The second definition of the page: <ReactMarkdown ... >{post.content}
RenderMarkdown ==
  /\ phase = "doc"
  /\ phase' = "rendered"
  /\ \E nodes \in {RehypePlugins(RemarkLines(Split(input, "\n"), <<>>,
                       [open |-> FALSE, className |-> Undefined], ""))} :
       output' = [path |-> "ReactMarkdown",
                  nodes |-> [n \in 1..Len(nodes) |->
                               IF nodes[n].kind = "code"
                               THEN CodeComponent(nodes[n]) ELSE nodes[n]]]
  /\ UNCHANGED <<blogPostFiles, now, blogPosts, built, lastCall, input, widgetVars>>

\* The lines a body is made of
RenderLines ==
  {"Intro", "# Title", "", "let x = 1;",
   "Use " \o Backtick \o "npm" \o Backtick \o " here",
   Backtick \o Backtick \o Backtick,
   Backtick \o Backtick \o Backtick \o "js",
   Backtick \o Backtick \o Backtick \o "c++",
   Backtick \o Backtick \o Backtick \o ".env",
   "<b>bold</b>", "<script>alert(1)</script>", "<img src=x onerror=alert(1)>"}

\* The bodies of one to four lines
RenderBodies ==
  RenderLines
    \cup {a \o "\n" \o b : a \in RenderLines, b \in RenderLines}
    \cup {a \o "\n" \o b \o "\n" \o c :
            a \in RenderLines, b \in RenderLines, c \in RenderLines}
    \cup {a \o "\n" \o b \o "\n" \o c \o "\n" \o d :
            a \in RenderLines, b \in RenderLines, c \in RenderLines,
            d \in RenderLines}

InitRender ==
  /\ FreshWidget
  /\ input \in RenderBodies
  /\ now = 19782
  /\ phase = "doc"
  /\ output = Undefined
  /\ blogPostFiles = <<>>
  /\ blogPosts = <<>>
  /\ built = <<>>
  /\ lastCall = NoCall

NextRender == RenderLegacy \/ RenderMarkdown

SpecRender == InitRender /\ [][NextRender]_vars

(***************************************************************************)
(* The Analytics component: one effect that loads the integrations. input  *)
(* is the build environment (import.meta.env), output the page: the        *)
(* scripts appended to document.head, window.dataLayer and the popstate    *)
(* listeners of the window.                                                *)
(***************************************************************************)

\* Most route changes followed after the component mounted
MaxEvents == 2

\* The values a variable of the environment can have
EnvValues(set) == {Undefined, StrV("")} \cup {StrV(x) : x \in set}

InitAnalytics ==
  /\ FreshWidget
  /\ input \in [VITE_GA_TRACKING_ID : EnvValues({"G-XXXXXXXXXX"}),
                 VITE_HOTJAR_ID : EnvValues({"1234567"}),
                 VITE_ENABLE_ANALYTICS : EnvValues({"true", "false"}),
                 DEV : BOOLEAN]
  /\ output = [scripts |-> <<>>, dataLayer |-> <<>>, listeners |-> {}]
  /\ phase = "env"
  /\ now = 19782
  /\ blogPostFiles = <<>>
  /\ blogPosts = <<>>
  /\ built = <<>>
  /\ lastCall = NoCall

\* The effect, run once when the component mounts
Mount ==
  /\ phase = "env"
  /\ phase' = "mounted"
  /\ LET GA_TRACKING_ID == input.VITE_GA_TRACKING_ID
         HOTJAR_ID == input.VITE_HOTJAR_ID
         ENABLE_ANALYTICS == input.VITE_ENABLE_ANALYTICS = StrV("true")
     IN IF ~ENABLE_ANALYTICS \/ input.DEV
        THEN output' = output
        ELSE IF Truthy(GA_TRACKING_ID)
        THEN output' =
               [scripts |-> Append(output.scripts,
                              "https://www.googletagmanager.com/gtag/js?id="
                                \o GA_TRACKING_ID.v),
                dataLayer |-> output.dataLayer
                                \o << <<"js", now>>, <<"config", GA_TRACKING_ID.v>> >>,
                listeners |-> output.listeners \cup {"handleRouteChange"}]
        ELSE IF Truthy(HOTJAR_ID)
        THEN output' =
               [output EXCEPT !.scripts =
                  Append(@, "https://static.hotjar.com/c/hotjar-"
                              \o HOTJAR_ID.v \o ".js?sv=6")]
        ELSE output' = output
  /\ UNCHANGED <<blogPostFiles, now, blogPosts, built, lastCall, input, widgetVars>>

\* A popstate event of the window: handleRouteChange when it is registered
Popstate ==
  /\ phase = "mounted"
  /\ "handleRouteChange" \in output.listeners
  /\ Len(output.dataLayer) < 2 + MaxEvents
  /\ output' = [output EXCEPT !.dataLayer =
                  Append(@, <<"config", input.VITE_GA_TRACKING_ID.v>>)]
  /\ UNCHANGED <<blogPostFiles, now, phase, blogPosts, built, lastCall, input,
                 widgetVars>>

\* The component unmounts: the function the effect returned, if any, runs
Unmount ==
  /\ phase = "mounted"
  /\ phase' = "unmounted"
  /\ output' = [output EXCEPT !.listeners = @ \ {"handleRouteChange"}]
  /\ UNCHANGED <<blogPostFiles, now, blogPosts, built, lastCall, input, widgetVars>>

NextAnalytics == Mount \/ Popstate \/ Unmount

SpecAnalytics == InitAnalytics /\ [][NextAnalytics]_vars

(***************************************************************************)
(* Properties                                                              *)
(***************************************************************************)

Ready == phase = "ready"

\* The repository as construction leaves it, before any accessor is called
Constructed == Ready /\ lastCall = NoCall

FileCount == Len(blogPostFiles)

PostCount == Len(blogPosts)

\* The files whose content is no string: the documents that throw
Throwing == {i \in 1..FileCount : blogPostFiles[i].content.t # "string"}

\* The post of file i in the repository, when there is one
HasPostOf(i) == \E n \in 1..PostCount : blogPosts[n].id = i

\* C1: partial-failure isolation. Evaluation of the module never throws; the
\* repository it leaves holds one post for each document that did not throw and none
\* for a document that threw (N - k posts), and the post of a surviving
\* document is the post that document gives at its own position, whatever
\* the other documents did.
C1_PartialFailureIsolation ==
  /\ phase # "failed"
  /\ Constructed =>
       /\ PostCount = FileCount - Cardinality(Throwing)
       /\ \A i \in 1..FileCount : HasPostOf(i) <=> i \notin Throwing
       /\ \A n \in 1..PostCount :
            LET i == blogPosts[n].id IN
            /\ i \in 1..FileCount
            /\ \E d \in {now, now + 1} :
                 blogPosts[n] = TryBody(blogPostFiles[i], i, d)

\* A repository built from a list in which one document threw and at least
\* two did not
C1_Witness ==
  /\ Ready
  /\ Cardinality(Throwing) = 1
  /\ PostCount >= 2

\* The date of post a is earlier than the date of post b
Earlier(a, b) ==
  LET ta == DateTime(a.date)
      tb == DateTime(b.date)
  IN /\ ~ta.nan
     /\ ~tb.nan
     /\ (ta.day < tb.day \/ (ta.day = tb.day /\ ta.ms < tb.ms))

\* C2: sort order. In the built repository no post comes before a post with
\* a later date, whatever the date values of the documents are.
C2_SortedByDateDescending ==
  Ready =>
    \A i, j \in 1..PostCount : i < j => ~Earlier(blogPosts[i], blogPosts[j])

Fields == {"title", "slug", "date", "excerpt", "tags", "featured", "readTime"}

\* The parsed frontmatter of the document a post comes from
FrontmatterOf(post) == parseFrontmatter(blogPostFiles[post.id].content).data

\* The value a post carries in a field
FieldOf(post, f) ==
  CASE f = "title" -> post.title
    [] f = "slug" -> post.slug
    [] f = "date" -> post.date
    [] f = "excerpt" -> post.excerpt
    [] f = "tags" -> post.tags
    [] f = "featured" -> post.featured
    [] f = "readTime" -> post.readTime

Recognized(s) ==
  /\ MatchesAt(s, "---", 1)
  /\ \E i \in 4..Len(s) :
       /\ CharAt(s, i) = "\n"
       /\ \A x \in 4..(i - 1) : IsSpace(CharAt(s, x))
       /\ \E j \in (i + 1)..Len(s) :
            /\ CharAt(s, j) = "\n"
            /\ MatchesAt(s, "---", j + 1)
            /\ \E k \in (j + 4)..Len(s) :
                 /\ CharAt(s, k) = "\n"
                 /\ \A x \in (j + 4)..(k - 1) : IsSpace(CharAt(s, x))

\* The calendar date of each day the clock may read, as YYYY-MM-DD
IsoOf(day) ==
  CASE day = 19722 -> "2023-12-31"
    [] day = 19723 -> "2024-01-01"
    [] day = 19782 -> "2024-02-29"
    [] day = 19783 -> "2024-03-01"

\* The words of a text, counted at their last characters
WordEnds(s) ==
  Cardinality({i \in 1..Len(s) :
    /\ ~IsSpace(CharAt(s, i))
    /\ (i = Len(s) \/ IsSpace(CharAt(s, i + 1)))})

\* words / 200 rounded up, where a text without words counts as one word
MinutesFor(s) ==
  LET w == IF WordEnds(s) = 0 THEN 1 ELSE WordEnds(s) IN
  IF w % 200 = 0 THEN w \div 200 ELSE w \div 200 + 1

\* C4: defaults. A document without a frontmatter block normalizes to the
\* title 'Untitled', the file name as slug, the current date as YYYY-MM-DD,
\* an empty excerpt, no tags, featured false and the read time of the whole
\* text.
C4_Defaults ==
  (phase = "normalized" /\ ~Recognized(input)) =>
    /\ output.t = "post"
    /\ output.title = StrV("Untitled")
    /\ output.slug = StrV(DocName)
    /\ output.date = StrV(IsoOf(now))
    /\ output.excerpt = StrV("")
    /\ output.tags = ArrV(<<>>)
    /\ output.featured = BoolV(FALSE)
    /\ output.readTime = IntV(MinutesFor(input))
    /\ output.content = input

\* A normalized document of several words without a frontmatter block, on
\* the last day of a year
C4_Witness ==
  /\ phase = "normalized"
  /\ ~Recognized(input)
  /\ WordEnds(input) >= 3
  /\ now = 19722
  /\ output.t = "post"
  /\ output.date = StrV("2023-12-31")

\* C5: missing frontmatter degrades gracefully. For a text that does not
\* start with the delimiter pattern parseFrontmatter raises no error and
\* returns an empty header and the whole input as body.
C5_NoFrontmatterWholeBody ==
  (phase = "parsed" /\ ~Recognized(input)) =>
    /\ output.t = "ok"
    /\ DOMAIN output.data = {}
    /\ output.content = input

\* A parsed text that holds a complete delimited block, but not at its start
C5_Witness ==
  /\ phase = "parsed"
  /\ ~Recognized(input)
  /\ StrIncludes(input, "\n---\nk: v\n---\n")
  /\ output.t = "ok"
  /\ output.content = input

\* The positions of the posts whose slug is the string s
SlugHits(s) ==
  {n \in 1..PostCount : blogPosts[n].slug.t = "string" /\ blogPosts[n].slug.v = s}

\* C6: getBlogPostBySlug(s) returns the first post in repository order whose
\* slug is exactly s, and undefined if and only if no post has that slug.
C6_FirstPostWithSlug ==
  (Ready /\ lastCall.fn = "getBlogPostBySlug") =>
    LET hits == SlugHits(lastCall.arg) IN
    /\ (lastCall.result.t = "undefined") <=> (hits = {})
    /\ hits # {} =>
         /\ lastCall.result.t = "object"
         /\ \E n \in hits :
              /\ \A k \in hits : n <= k
              /\ lastCall.result.v = blogPosts[n]

\* A lookup of a slug that two posts share
C6_Witness ==
  /\ Ready
  /\ lastCall.fn = "getBlogPostBySlug"
  /\ Cardinality(SlugHits(lastCall.arg)) >= 2
  /\ lastCall.result.t = "object"

\* The post has a tag that is the string tag, as a whole
HasTag(post, tag) ==
  \/ post.tags.t = "array" /\ \E i \in 1..Len(post.tags.v) : post.tags.v[i] = tag
  \/ post.tags.t = "string" /\ post.tags.v = tag

\* C7: getBlogPostsByTag(t) returns exactly the posts that have a tag equal
\* to t as a whole string, in repository order, for every repository that
\* can be built.
C7_ExactTagMatch ==
  (Ready /\ lastCall.fn = "getBlogPostsByTag" /\ lastCall.result.t = "list") =>
    lastCall.result.v =
      SelectSeq(blogPosts, LAMBDA post : HasTag(post, lastCall.arg))

\* C8: getFeaturedBlogPosts() returns exactly the posts whose featured field
\* is the boolean true, in repository order.
C8_FeaturedIsTrue ==
  (Ready /\ lastCall.fn = "getFeaturedBlogPosts") =>
    /\ lastCall.result.t = "list"
    /\ lastCall.result.v =
         SelectSeq(blogPosts, LAMBDA post : post.featured = BoolV(TRUE))

\* The tags of a post: the elements of its list, or its one scalar tag
TagsOf(post) ==
  IF post.tags.t = "array"
  THEN {StrV(post.tags.v[i]) : i \in 1..Len(post.tags.v)}
  ELSE {post.tags}

\* a does not sort after b in code-unit order: a is a prefix of b, or the
\* first character in which they differ has the smaller code in a
CodeUnitsLE(a, b) ==
  \/ Len(a) <= Len(b) /\ \A i \in 1..Len(a) : CharAt(a, i) = CharAt(b, i)
  \/ \E i \in 1..Len(a) :
       /\ i <= Len(b)
       /\ \A k \in 1..(i - 1) : CharAt(a, k) = CharAt(b, k)
       /\ CharCode(CharAt(a, i)) < CharCode(CharAt(b, i))

\* C9: getAllTags() returns the tags of all posts, each once, in ascending
\* lexicographic order.
C9_AllTagsSortedUnique ==
  (Ready /\ lastCall.fn = "getAllTags") =>
    /\ lastCall.result.t = "list"
    /\ LET r == lastCall.result.v IN
       /\ \A i, j \in 1..Len(r) : i # j => ~StrictEq(r[i], r[j])
       /\ \A i, j \in 1..Len(r) : i < j => CodeUnitsLE(ToStr(r[i]), ToStr(r[j]))
       /\ {r[i] : i \in 1..Len(r)} =
            UNION {TagsOf(blogPosts[n]) : n \in 1..PostCount}

\* All tags of a repository in which two posts share a tag and the tags are
\* not met in sorted order
C9_Witness ==
  /\ Ready
  /\ lastCall.fn = "getAllTags"
  /\ lastCall.result.t = "list"
  /\ Len(lastCall.result.v) >= 3
  /\ \E m, n \in 1..PostCount :
       m # n /\ TagsOf(blogPosts[m]) \cap TagsOf(blogPosts[n]) # {}
  /\ \E n \in 1..PostCount :
       blogPosts[n].tags = ArrV(<<"Rust", "Go">>)

\* What a call of accessor fn with argument arg returns on the posts
ResultOn(posts, fn, arg) ==
  CASE fn = "getBlogPostBySlug" -> getBlogPostBySlug(posts, arg).result
    [] fn = "getFeaturedBlogPosts" -> getFeaturedBlogPosts(posts).result
    [] fn = "getBlogPostsByTag" -> getBlogPostsByTag(posts, arg).result
    [] fn = "getAllTags" -> getAllTags(posts).result
    [] OTHER -> Undefined

\* C10: the repository is read-only after construction. After any calls of
\* the accessors blogPosts is what construction left, and the latest call
\* returned what the same call returns on the repository as built.
C10_ReadOnly ==
  Ready =>
    /\ blogPosts = built
    /\ lastCall.result = ResultOn(built, lastCall.fn, lastCall.arg)

\* A call of getAllTags on a repository with a post whose tags are not in
\* sorted order
C10_Witness ==
  /\ Ready
  /\ lastCall.fn = "getAllTags"
  /\ PostCount >= 2
  /\ \E n \in 1..PostCount : blogPosts[n].tags = ArrV(<<"Rust", "Go">>)
  /\ blogPosts = built


\* The header keys parseFrontmatter finds in the input
InputKeys == DOMAIN parseFrontmatter(StrV(input)).data

\* C11: read-time estimate. When the frontmatter has no readTime, the post's
\* readTime is the number of whitespace-separated words of its body divided
\* by 200 and rounded up, and 1 when that is less than 1 (a body without
\* words); a body of exactly 400 words gives 2.
C11_ReadTimeEstimate ==
  (phase = "normalized" /\ "readTime" \notin InputKeys) =>
    LET w == WordEnds(output.content)
        m == IF w % 200 = 0 THEN w \div 200 ELSE w \div 200 + 1
    IN /\ output.readTime = IntV(IF m < 1 THEN 1 ELSE m)
       /\ output.readTime.v >= 1
       /\ (w = 400 => output.readTime = IntV(2))

\* A normalized document with a header that names no readTime and a body of
\* exactly 400 words
C11_Witness ==
  /\ phase = "normalized"
  /\ "title" \in InputKeys
  /\ "readTime" \notin InputKeys
  /\ WordEnds(output.content) = 400
  /\ output.readTime = IntV(2)


\* The header lines of a document made by HeaderDocument: the text between
\* the first line and the first later line of three hyphens
InputLines ==
  LET j == SetMin({x \in 4..Len(input) : MatchesAt(input, "\n---\n", x)}) IN
  Split(Sub(input, 5, j - 1), "\n")

\* A line that carries a key: not blank, no comment, with a colon
Significant(line) ==
  /\ \E i \in 1..Len(line) : ~IsSpace(CharAt(line, i))
  /\ CharAt(line, FirstNonSpace(line, 1)) # "#"
  /\ \E i \in 1..Len(line) : CharAt(line, i) = ":"

\* The key of a significant line and the text after its first colon
KeyOf(line) == Trim(Sub(line, 1, IndexOf(line, ":") - 1))

RawOf(line) == Sub(line, IndexOf(line, ":") + 1, Len(line))

\* The token of a raw value: trimmed, then without one pair of matching
\* surrounding quotes
TokenOf(raw) ==
  LET v == Trim(raw) IN
  IF /\ Len(v) >= 2
     /\ CharAt(v, 1) = CharAt(v, Len(v))
     /\ CharAt(v, 1) \in {"\"", "'"}
  THEN Sub(v, 2, Len(v) - 1)
  ELSE v

\* The lines whose value the parsed header holds: for each key its last
\* significant line
Deciding ==
  {n \in 1..Len(InputLines) :
     /\ Significant(InputLines[n])
     /\ \A k \in (n + 1)..Len(InputLines) :
          Significant(InputLines[k]) => KeyOf(InputLines[k]) # KeyOf(InputLines[n])}

\* C12: boolean coercion. A header value parses to a boolean exactly when
\* its token (trimmed, one pair of matching quotes stripped) is true or
\* false; any other token that is no list and no integer is kept as the
\* string it is.
C12_BooleanCoercion ==
  phase = "parsed" =>
    \A n \in Deciding :
      LET key == KeyOf(InputLines[n])
          token == TokenOf(RawOf(InputLines[n]))
      IN /\ key \in DOMAIN output.data
         /\ (output.data[key].t = "boolean") <=> (token \in {"true", "false"})
         /\ token = "true" => output.data[key] = BoolV(TRUE)
         /\ token = "false" => output.data[key] = BoolV(FALSE)
         /\ token \in {"yes", "True", "TRUE", "truex", " true "} =>
              output.data[key] = StrV(token)

\* A parsed header with an unquoted false that is coerced and the token TRUE
\* that is not
C12_Witness ==
  /\ phase = "parsed"
  /\ \E n \in Deciding : TokenOf(RawOf(InputLines[n])) = "TRUE"
  /\ \E n \in Deciding : TokenOf(RawOf(InputLines[n])) = "false"
  /\ DOMAIN output.data = {"draft", "featured"}
  /\ output.data["draft"] = BoolV(FALSE)
  /\ output.data["featured"] = StrV("TRUE")



\* The positions of the commas of a text
Commas(s) == {i \in 1..Len(s) : CharAt(s, i) = ","}

\* The k-th comma of s; 0 before the first and Len(s) + 1 after the last
CommaAt(s, k) ==
  IF k = 0 THEN 0
  ELSE IF k > Cardinality(Commas(s)) THEN Len(s) + 1
  ELSE CHOOSE p \in Commas(s) : Cardinality({q \in Commas(s) : q < p}) = k - 1

\* The k-th comma-separated element of s: trimmed, then without the quote
\* character at its start and the quote character at its end
ElementOf(s, k) ==
  LET e == Trim(Sub(s, CommaAt(s, k - 1) + 1, CommaAt(s, k) - 1))
      from == IF Len(e) >= 1 /\ CharAt(e, 1) \in {"\"", "'"} THEN 2 ELSE 1
      to == IF Len(e) >= from /\ CharAt(e, Len(e)) \in {"\"", "'"}
            THEN Len(e) - 1 ELSE Len(e)
  IN Sub(e, from, to)

\* The elements of the list written as [e1, e2, ...], the empty ones dropped
ElementsOf(token) ==
  LET inner == Sub(token, 2, Len(token) - 1)
      all == [k \in 1..(Cardinality(Commas(inner)) + 1) |-> ElementOf(inner, k)]
  IN SelectSeq(all, LAMBDA e : e # "")

IsList(token) ==
  /\ Len(token) >= 2
  /\ CharAt(token, 1) = "["
  /\ CharAt(token, Len(token)) = "]"

\* C13: tag array parsing. A header value of the form [e1, e2, ...] parses
\* to its comma-separated elements in source order, each trimmed and
\* without its surrounding quote characters, the empty ones dropped; the
\* parsed sequence holds no empty string.
C13_ArrayParsing ==
  phase = "parsed" =>
    \A n \in Deciding :
      LET key == KeyOf(InputLines[n])
          token == TokenOf(RawOf(InputLines[n]))
      IN IsList(token) =>
           /\ output.data[key] = ArrV(ElementsOf(token))
           /\ \A k \in 1..Len(output.data[key].v) : output.data[key].v[k] # ""

\* The parsed list of ["Rust", "Go", ""]: the empty element is dropped
C13_Witness ==
  /\ phase = "parsed"
  /\ \E n \in Deciding : RawOf(InputLines[n]) = " [\"Rust\", \"Go\", \"\"]"
  /\ output.data["tags"] = ArrV(<<"Rust", "Go">>)


\* What parseFrontmatter makes of the header that holds this line only
AloneData(line) == parseFrontmatter(StrV(HeaderDocument(<<line>>))).data

\* C14: lenient header parsing. A header line that is blank, starts with #
\* or has no colon raises no error and changes nothing: the parsed header
\* holds the keys of the other lines only, each with the value its line
\* gives on its own.
C14_SkippedLines ==
  phase = "parsed" =>
    /\ output.t = "ok"
    /\ DOMAIN output.data =
         {KeyOf(InputLines[n]) : n \in {k \in 1..Len(InputLines) : Significant(InputLines[k])}}
    /\ \A n \in Deciding :
         output.data[KeyOf(InputLines[n])] =
           AloneData(InputLines[n])[KeyOf(InputLines[n])]
    /\ output.content = HeaderBody

\* A parsed header of a comment line that holds a colon and a line with a
\* key
C14_Witness ==
  /\ phase = "parsed"
  /\ Len(InputLines) = 2
  /\ InputLines[1] = "#tags: [x]"
  /\ InputLines[2] = "title: \"T\""
  /\ DOMAIN output.data = {"title"}
  /\ output.data["title"] = StrV("T")


\* The end of the line that starts at position p of s: its newline
LineEnd(s, p) == SetMin({k \in p..Len(s) : CharAt(s, k) = "\n"} \cup {Len(s) + 1})

\* The line of s that starts at p is three hyphens, blanks may follow
DelimiterLine(s, p) ==
  /\ MatchesAt(s, "---", p)
  /\ LineEnd(s, p) <= Len(s)
  /\ \A x \in (p + 3)..(LineEnd(s, p) - 1) : IsSpace(CharAt(s, x))

\* The text that follows the closing line of the frontmatter block: the
\* first delimiter line after the first line
AfterClosingLine(s) ==
  LET p == SetMin({x \in (LineEnd(s, 1) + 1)..Len(s) :
                     CharAt(s, x - 1) = "\n" /\ DelimiterLine(s, x)})
  IN Sub(s, LineEnd(s, p) + 1, Len(s))

\* C15 as stated: body preservation. For a document with a recognized
\* frontmatter block the body is exactly the text that follows the closing
\* line of three hyphens, leading blank lines included.
C15_BodyPreserved ==
  (phase = "parsed" /\ Recognized(input)) =>
    output.content = AfterClosingLine(input)


\* C16 as stated: slug invariant. The post of a document with a non-empty
\* file name has a non-empty slug: the frontmatter slug when that is present
\* and non-empty, the file name otherwise. A value is empty when the text it
\* stands for is the empty string.
C16_SlugInvariant ==
  phase = "normalized" =>
    LET frontmatter == parseFrontmatter(StrV(input)).data IN
    /\ output.t = "post"
    /\ ToStr(output.slug) # ""
    /\ output.slug =
         IF "slug" \in DOMAIN frontmatter /\ ToStr(frontmatter["slug"]) # ""
         THEN frontmatter["slug"]
         ELSE StrV(DocName)


\* C17 as stated: tags invariant. Whatever the frontmatter holds for tags
\* (nothing, a bracketed list, a bare scalar), the tags of the post are never
\* null and are an ordered sequence of strings; absent tags give the empty
\* sequence.
C17_TagsInvariant ==
  phase = "normalized" =>
    /\ output.t = "post"
    /\ output.tags.t # "null"
    /\ output.tags.t = "array"
    /\ "tags" \notin InputKeys => output.tags = ArrV(<<>>)


\* C18 as stated: no error surface at query time. On every repository that
\* construction can produce, every call of getBlogPostsByTag, getAllTags,
\* getFeaturedBlogPosts and getBlogPostBySlug returns a result and throws
\* nothing.
C18_NoThrowAtQuery ==
  (Ready /\ lastCall.fn # "none") => lastCall.result.t # "throw"


\* C19 as stated: stable ties. Two posts with equal dates stand in the
\* repository in the order of their source documents in the ingestion list
\* (the id of a post is the place of its document in that list).
C19_StableTies ==
  Ready =>
    \A i, j \in 1..PostCount :
      (i < j /\ blogPosts[i].date = blogPosts[j].date) =>
        blogPosts[i].id < blogPosts[j].id


\* C20 as stated: copy acknowledgment duration. After a copy that succeeded
\* the widget stays in the copied state for the full 2 seconds that follow
\* it and is back in the other state after them, also when the copy was made
\* while the acknowledgment of an earlier one was showing.
C20_AckLastsTwoSeconds ==
  copiedAt # <<>> =>
    /\ clock < copiedAt[1] + AckMs => copied
    /\ clock > copiedAt[1] + AckMs => ~copied


\* A class attribute that names a language: language- followed by a letter,
\* a digit or an underscore
HasLanguageTag(className) ==
  /\ className.t = "string"
  /\ \E i \in 1..Len(className.v) :
       /\ MatchesAt(className.v, "language-", i)
       /\ \E c \in {CharAt(className.v, i + 9)} :
            \/ c = "_"
            \/ IsDigit(c)
            \/ \E k \in 1..26 :
                 c \in {CharAt("abcdefghijklmnopqrstuvwxyz", k),
                        CharAt("ABCDEFGHIJKLMNOPQRSTUVWXYZ", k)}

\* The code elements of the page ReactMarkdown rendered
CodeNodes ==
  {n \in 1..Len(output.nodes) : output.nodes[n].kind \in {"code", "CodeBlock"}}

C22_SanitizedBeforeDisplay ==
  phase = "rendered" =>
    \A n \in 1..Len(output.nodes) :
      (/\ output.nodes[n].kind = "html"
       /\ \E k \in 1..Len(Split(input, "\n")) :
            /\ MatchesAt(Split(input, "\n")[k], "<", 1)
            /\ StrIncludes(output.nodes[n].value, Split(input, "\n")[k])) =>
        /\ output.nodes[n].sanitized
        /\ ~StrIncludes(output.nodes[n].value, "<script")
        /\ ~StrIncludes(output.nodes[n].value, " onerror=")


\* The line of s that starts at p is exactly three hyphens
ExactDelimiterLine(s, p) ==
  /\ (p = 1 \/ CharAt(s, p - 1) = "\n")
  /\ MatchesAt(s, "---", p)
  /\ (p + 3 = Len(s) + 1 \/ CharAt(s, p + 3) = "\n")

\* The text starts with a line of exactly three hyphens and has a later line
\* of exactly three hyphens; the lines between them are the header block
Delimited(s) ==
  /\ ExactDelimiterLine(s, 1)
  /\ \E p \in 5..Len(s) : ExactDelimiterLine(s, p)

\* C23 as stated: header recognition. Every text that starts with a line
\* that is exactly three hyphens, followed by zero or more header lines and
\* a second line that is exactly three hyphens, is parsed as having a
\* frontmatter block (the body is what follows the block, not the whole
\* text), also with an empty header block and with no newline after the
\* closing line.
C23_HeaderRecognized ==
  (phase = "parsed" /\ Delimited(input)) =>
    /\ output.t = "ok"
    /\ output.content # input


\* C24: post ids. The id of a post is the 1-based position of its source
\* document in the ingestion list, given before failed documents are
\* discarded and before sorting: ids are pairwise distinct, and a skipped
\* document leaves a gap instead of renumbering the others.
C24_IdIsIngestionPosition ==
  /\ Ready =>
       /\ \A n, m \in 1..PostCount : blogPosts[n].id = blogPosts[m].id => n = m
       /\ \A n \in 1..PostCount :
            /\ blogPosts[n].id \in 1..FileCount
            /\ blogPosts[n].id \notin Throwing
  /\ Constructed =>
       \A n \in 1..PostCount :
         \E r \in {parseFrontmatter(blogPostFiles[blogPosts[n].id].content)} :
           /\ r.t = "ok"
           /\ blogPosts[n].content = r.content
           /\ blogPosts[n].slug = Or(Get(r.data, "slug"),
                                     StrV(blogPostFiles[blogPosts[n].id].name))

\* A repository of two posts built from three documents of which the first
\* was skipped: the ids are 2 and 3, none is 1, and sorting put the post of
\* the third document first
C24_Witness ==
  /\ Constructed
  /\ FileCount = 3
  /\ Throwing = {1}
  /\ PostCount = 2
  /\ blogPosts[1].id = 3
  /\ blogPosts[2].id = 2


\* A script of the page was loaded from an address that starts with url
Loaded(url) ==
  \E n \in 1..Len(output.scripts) : MatchesAt(output.scripts[n], url, 1)

\* C25 as stated: the analytics integrations are independent. In a
\* production build with analytics enabled, Google Analytics is initialised
\* whenever its tracking id is configured and Hotjar whenever its id is
\* configured; with both ids configured both are loaded.
C25_IntegrationsIndependent ==
  (/\ phase \in {"mounted", "unmounted"}
   /\ input.VITE_ENABLE_ANALYTICS = StrV("true")
   /\ ~input.DEV) =>
    /\ Truthy(input.VITE_GA_TRACKING_ID) =>
         Loaded("https://www.googletagmanager.com/gtag/js?id=")
    /\ Truthy(input.VITE_HOTJAR_ID) =>
         Loaded("https://static.hotjar.com/c/hotjar-")


\* The start of the first line after the first that is exactly three hyphens
FirstClosing(s) == SetMin({p \in 5..Len(s) : ExactDelimiterLine(s, p)})

\* C26 as stated: the header ends at the first line after the opening
\* delimiter that is exactly three hyphens. Every later such line stays in
\* the body as it is (the body is the text after the first closing line,
\* less at most a blank lead), and no line after the first closing line is
\* parsed as a header key.
C26_HeaderEndsAtFirstDelimiter ==
  (phase = "parsed" /\ Delimited(input)) =>
    \E p \in {FirstClosing(input)} :
      \E rest \in {Sub(input, LineEnd(input, p) + 1, Len(input))} :
        /\ output.t = "ok"
        /\ Len(output.content) <= Len(rest)
        /\ output.content =
             Sub(rest, Len(rest) - Len(output.content) + 1, Len(rest))
        /\ AllSpace(rest, 1, Len(rest) - Len(output.content))
        /\ \A key \in DOMAIN output.data :
             \E line \in {Split(Sub(input, 5, p - 2), "\n")[n] :
                            n \in 1..Len(Split(Sub(input, 5, p - 2), "\n"))} :
               Significant(line) /\ KeyOf(line) = key


\* C27: a header line is split at its first colon only. The key is the
\* trimmed text before the first colon, so it holds no colon, and the value
\* is made of the whole trimmed text after it: a value that holds colons
\* itself is kept whole, never cut at a later colon.
C27_SplitAtFirstColon ==
  phase = "parsed" =>
    /\ \A key \in DOMAIN output.data : ~StrIncludes(key, ":")
    /\ \A n \in Deciding :
         \E line \in {InputLines[n]} :
           \E c \in {SetMin({i \in 1..Len(line) : CharAt(line, i) = ":"})} :
             \E token \in {TokenOf(Sub(line, c + 1, Len(line)))} :
               /\ Trim(Sub(line, 1, c - 1)) \in DOMAIN output.data
               /\ (StrIncludes(token, ":") /\ ~IsList(token)) =>
                    output.data[Trim(Sub(line, 1, c - 1))] = StrV(token)

\* A parsed header with the lines title: a: b and title: "A: B", of which
\* the last decides: the title is A: B
C27_Witness ==
  /\ phase = "parsed"
  /\ Len(InputLines) = 2
  /\ InputLines[1] = "title: a: b"
  /\ InputLines[2] = "title: \"A: B\""
  /\ DOMAIN output.data = {"title"}
  /\ output.data["title"] = StrV("A: B")


\* C28: the copy acknowledgment always clears. Whatever clicks were made and
\* however their writes ended, the widget is in the other state once every
\* timeout that was scheduled has fired, and a widget in the copied state
\* always leaves it: it cannot stay copied forever.
C28_AckAlwaysClears ==
  /\ [](timers = <<>> => ~copied)
  /\ [](copied => <>(~copied))

\* Two seconds or more after a copy that succeeded: no timeout and no write
\* is pending and the widget is out of the copied state
C28_Witness ==
  /\ copiedAt # <<>>
  /\ clock >= copiedAt[1] + AckMs
  /\ timers = <<>>
  /\ writes = 0
  /\ ~copied


\* C29: a copy that fails leaves the state unchanged. The step that ends a
\* handleCopy whose clipboard write was rejected does not propagate the
\* error (it is logged), schedules no timeout, and leaves the copied flag
\* with the value it had.
C29_RejectedWriteChangesNothing ==
  [][(writes' = writes - 1 /\ handled' # "copied") =>
       /\ handled' = "logged"
       /\ copied' = copied
       /\ timers' = timers
       /\ phase' = phase]_vars

\* After a copy that succeeded, a second click's write was rejected: the
\* widget is still in the copied state of the first, with its one timeout
C29_Witness ==
  /\ handled = "logged"
  /\ copied
  /\ Len(timers) = 1
  /\ writes = 0
  /\ copiedAt # <<>>


\* C30 as stated: the tag filter of the blog page. In every state reached
\* by clicking the All button and the tag buttons the page shows a list of
\* posts, and the list is not empty when the repository is not empty.
C30_FilteredListNonEmpty ==
  (phase = "blog" /\ PostCount > 0) =>
    /\ output.sortedPosts.t = "list"
    /\ Len(output.sortedPosts.v) > 0

====
